---- MODULE Spec2Model ----
(***************************************************************************)
(* petpy/api.py: the Petfinder client's parameter validation               *)
(* (_check_parameters), parameter assembly (_parameters) and the paginated *)
(* searches Petfinder.animals / Petfinder.organizations.                   *)
(***************************************************************************)
EXTENDS Integers, Sequences, FiniteSets, TLC

(***************************************************************************)
(* Bounds of the model.                                                    *)
(***************************************************************************)
\* largest total_pages the server reports
MaxTotalPages == 4
\* largest number of items on one page
MaxItems == 2
\* largest pages argument a caller passes
MaxPagesArg == 5
\* longest list passed for a multi-value filter
MaxListLen == 2

(***************************************************************************)
(* Python values: None, str, list of str, int.                             *)
(***************************************************************************)
PyNone == [tag |-> "None", s |-> "", q |-> <<>>, n |-> 0]

PyStr(x) == [tag |-> "str", s |-> x, q |-> <<>>, n |-> 0]

PyList(x) == [tag |-> "list", s |-> "", q |-> x, n |-> 0]

PyInt(x) == [tag |-> "int", s |-> "", q |-> <<>>, n |-> x]

IsNone(v) == v.tag = "None"

Range(q) == {q[i] : i \in 1..Len(q)}

(***************************************************************************)
(* Pieces of a formatted message: literal text, a formatted tuple, a       *)
(* formatted set (Python prints a set in no fixed order), a formatted list.*)
(***************************************************************************)
Text(x) == [k |-> "text", s |-> x, q |-> <<>>, e |-> {}]

TupleText(x) == [k |-> "tuple", s |-> "", q |-> x, e |-> {}]

SetText(x) == [k |-> "set", s |-> "", q |-> <<>>, e |-> x]

ListText(x) == [k |-> "list", s |-> "", q |-> x, e |-> {}]

\* str.format of one value
Format(v) ==
    IF v.tag = "str" THEN Text(v.s)
    ELSE IF v.tag = "list" THEN ListText(v.q)
    ELSE IF v.tag = "int" THEN [k |-> "int", s |-> "", q |-> <<v.n>>, e |-> {}]
    ELSE Text("None")

(***************************************************************************)
(* _check_parameters: the enumeration tables.                              *)
(***************************************************************************)
_animal_types == <<"dog", "cat", "rabbit", "small-furry",
                   "horse", "bird", "scales-fins-other", "barnyard">>

_sizes == <<"small", "medium", "large", "xlarge">>

_genders == <<"male", "female", "unknown">>

_ages == <<"baby", "young", "adult", "senior">>

_coats == <<"short", "medium", "long", "wire", "hairless", "curly">>

_status == <<"adoptable", "adopted", "found">>

_location == <<"city,state", "latitude,longitude", "postal code">>

_sort == <<"recent", "-recent", "distance", "-distance">>

MaxDistance == 500

MaxLimit == 100

\* `x not in table` for a str (a list is never equal to a member of the table)
NotIn(v, table) == ~(v.tag = "str" /\ v.s \in Range(table))

\* a str is not wrapped in a list
AsCollection_NoWrap(v) == v.q

\* if isinstance(x, str): x = [x]
AsCollection(v) == IF v.tag = "str" THEN <<v.s>> ELSE v.q

\* set(x).difference(table)
Difference(v, table) == Range(AsCollection(v)) \ Range(table)

Entry(key, msg) == [key |-> key, msg |-> msg]

AnimalTypesCheck(animal_types) ==
    IF ~IsNone(animal_types) /\ NotIn(animal_types, _animal_types)
    THEN << Entry("animal_types",
                  << Text("animal types "), Format(animal_types),
                     Text(" is not valid. Animal types must of the following: "),
                     TupleText(_animal_types) >>) >>
    ELSE << >>

SizeCheck(size) ==
    IF ~IsNone(size) /\ Difference(size, _sizes) # {}
    THEN << Entry("size",
                  << Text("sizes "), SetText(Difference(size, _sizes)),
                     Text(" are not valid. Sizes must be of the following: "),
                     TupleText(_sizes) >>) >>
    ELSE << >>

GenderCheck(gender) ==
    IF ~IsNone(gender) /\ Difference(gender, _genders) # {}
    THEN << Entry("gender",
                  << Text("genders "), SetText(Difference(gender, _genders)),
                     Text(" are not valid. Genders must be of the following: "),
                     TupleText(_genders) >>) >>
    ELSE << >>

AgeCheck(age) ==
    IF ~IsNone(age) /\ Difference(age, _ages) # {}
    THEN << Entry("age",
                  << Text("ages "), SetText(Difference(age, _ages)),
                     Text(" are not valid. Ages must be of the following: "),
                     TupleText(_ages) >>) >>
    ELSE << >>

CoatCheck(coat) ==
    IF ~IsNone(coat) /\ Difference(coat, _coats) # {}
    THEN << Entry("coat",
                  << Text("coats "), SetText(Difference(coat, _coats)),
                     Text(" are not valid. Coats must be of the following: "),
                     TupleText(_coats) >>) >>
    ELSE << >>

StatusCheck(status) ==
    IF ~IsNone(status) /\ NotIn(status, _status)
    THEN << Entry("status",
                  << Text("animal status "), Format(status),
                     Text(" is not valid. Status must be of the following: "),
                     TupleText(_status) >>) >>
    ELSE << >>

SortCheck(sort) ==
    IF ~IsNone(sort) /\ NotIn(sort, _sort)
    THEN << Entry("sort",
                  << Text("sort order "), Format(sort),
                     Text(" must be one of: "), TupleText(_sort) >>) >>
    ELSE << >>

\* the location is compared with the table of the sort orders
LocationCheck_SortTable(location) ==
    IF ~IsNone(location) /\ NotIn(location, _sort)
    THEN << Entry("location",
                  << Text("location "), Format(location),
                     Text(" must be one of: "), TupleText(_sort) >>) >>
    ELSE << >>

LocationCheck(location) ==
    IF ~IsNone(location) /\ NotIn(location, _location)
    THEN << Entry("location",
                  << Text("location "), Format(location),
                     Text(" must be one of: "), TupleText(_location) >>) >>
    ELSE << >>

\* the bound itself is rejected
DistanceCheck_Strict(distance) ==
    IF ~IsNone(distance) /\ distance.n >= MaxDistance
    THEN << Entry("distance", << Text("distance cannot be greater than 500") >>) >>
    ELSE << >>

DistanceCheck(distance) ==
    IF ~IsNone(distance) /\ distance.n > MaxDistance
    THEN << Entry("distance", << Text("distance cannot be greater than 500") >>) >>
    ELSE << >>

LimitCheck(limit) ==
    IF ~IsNone(limit) /\ limit.n > MaxLimit
    THEN << Entry("limit", << Text("results per page cannot be greater than 100") >>) >>
    ELSE << >>

\* the location is checked before the sort order
IncorrectValues_Reordered(a) ==
    AnimalTypesCheck(a.animal_types) \o SizeCheck(a.size) \o GenderCheck(a.gender)
      \o AgeCheck(a.age) \o CoatCheck(a.coat) \o StatusCheck(a.status)
      \o LocationCheck(a.location) \o SortCheck(a.sort)
      \o DistanceCheck(a.distance) \o LimitCheck(a.limit)

\* incorrect_values: a dict keeps its keys in insertion order
IncorrectValues(a) ==
    AnimalTypesCheck(a.animal_types) \o SizeCheck(a.size) \o GenderCheck(a.gender)
      \o AgeCheck(a.age) \o CoatCheck(a.coat) \o StatusCheck(a.status)
      \o SortCheck(a.sort) \o LocationCheck(a.location)
      \o DistanceCheck(a.distance) \o LimitCheck(a.limit)

\* errors = errors + v + '\n' for every value of incorrect_values
RECURSIVE JoinErrors(_)
JoinErrors(iv) ==
    IF iv = << >> THEN << >>
    ELSE Head(iv).msg \o << Text("\n") >> \o JoinErrors(Tail(iv))

NoError == [kind |-> "none", message |-> << >>]

ValueError(msg) == [kind |-> "ValueError", message |-> msg]

\* the outcome of _check_parameters(**a): NoError (returns None) or the ValueError
_check_parameters(a) ==
    IF Len(IncorrectValues(a)) > 0
    THEN ValueError(JoinErrors(IncorrectValues(a)))
    ELSE NoError


(***************************************************************************)
(* _parameters: validation, then the wire mapping without the None values. *)
(***************************************************************************)
\* the args dict: wire name |-> supplied value
ArgsDict(p) ==
    [animal |-> p.animal, breed |-> p.breed, size |-> p.size, gender |-> p.gender,
     age |-> p.age, color |-> p.color, coat |-> p.coat, animal_type |-> p.animal_type,
     location |-> p.location, distance |-> p.distance, state |-> p.state,
     country |-> p.country, query |-> p.query, sort |-> p.sort, name |-> p.name,
     animal_id |-> p.animal_id, organization_id |-> p.organization_id,
     status |-> p.status, limit |-> p.results_per_page, page |-> p.page]

\* the None values stay in the mapping
DropNone_KeepAll(d) == d

\* {key: val for key, val in args.items() if val is not None}
DropNone(d) == [key \in {k \in DOMAIN d : ~IsNone(d[k])} |-> d[key]]

\* the keyword arguments _parameters hands to _check_parameters
CheckArgs(p) ==
    [animal_types |-> p.animal_type, size |-> p.size, gender |-> p.gender,
     age |-> p.age, coat |-> p.coat, status |-> p.status, location |-> p.location,
     distance |-> p.distance, sort |-> p.sort, limit |-> p.results_per_page]

\* _parameters without the call of _check_parameters
_parameters_unchecked(p) == [error |-> NoError, args |-> DropNone(ArgsDict(p))]

\* the outcome of _parameters(**p): the error of the validation, or the mapping
_parameters(p) ==
    IF _check_parameters(CheckArgs(p)).kind # "none"
    THEN [error |-> _check_parameters(CheckArgs(p)), args |-> << >>]
    ELSE [error |-> NoError, args |-> DropNone(ArgsDict(p))]

\* the defaults of _parameters: every argument None
ParametersDefaults ==
    [animal |-> PyNone, breed |-> PyNone, size |-> PyNone, gender |-> PyNone,
     color |-> PyNone, coat |-> PyNone, animal_type |-> PyNone, location |-> PyNone,
     distance |-> PyNone, state |-> PyNone, country |-> PyNone, query |-> PyNone,
     sort |-> PyNone, name |-> PyNone, age |-> PyNone, animal_id |-> PyNone,
     organization_id |-> PyNone, status |-> PyNone, results_per_page |-> PyNone,
     page |-> PyNone]

\* the call of _parameters in Petfinder.animals
AnimalsParameters(a) ==
    [ParametersDefaults EXCEPT
        !.animal_type = a.animal_type, !.breed = a.breed, !.size = a.size,
        !.gender = a.gender, !.age = a.age, !.color = a.color, !.coat = a.coat,
        !.status = a.status, !.name = a.name, !.organization_id = a.organization_id,
        !.location = a.location, !.distance = a.distance, !.sort = a.sort,
        !.results_per_page = a.results_per_page]

\* the call of _parameters in Petfinder.organizations
OrganizationsParameters(a) ==
    [ParametersDefaults EXCEPT
        !.name = a.name, !.location = a.location, !.distance = a.distance,
        !.state = a.state, !.country = a.country, !.query = a.query,
        !.sort = a.sort, !.results_per_page = a.results_per_page]


(***************************************************************************)
(* The server behind requests.get: total_pages pages of items.             *)
(***************************************************************************)
\* the i-th item of page p
Item(p, i) == [page |-> p, idx |-> i, id |-> ""]

\* the record stored under an identifier
Record(id) == [page |-> 0, idx |-> 0, id |-> id]

Servers ==
    UNION {[total_pages : {m}, sizes : [1..m -> 1..MaxItems]] : m \in 1..MaxTotalPages}

PageItems(sv, p) ==
    IF p \in 1..sv.total_pages THEN [i \in 1..sv.sizes[p] |-> Item(p, i)] ELSE << >>

\* requests.get(url, headers, params=params)
SearchRequest(url, prm) == [url |-> url, id |-> "", params |-> prm]

\* requests.get(url.format(id=id), headers)
IdRequest(url, id) == [url |-> url, id |-> id, params |-> << >>]

\* the page a search request asks for: its page parameter, the first page without one
PageOf(req) == IF "page" \in DOMAIN req.params THEN req.params["page"].n ELSE 1

\* r.json() of a search request
SearchResponse(sv, req) ==
    [items |-> PageItems(sv, PageOf(req)), total_pages |-> sv.total_pages]

\* params['page'] = page
SetPage(prm, p) ==
    [key \in (DOMAIN prm) \cup {"page"} |-> IF key = "page" THEN PyInt(p) ELSE prm[key]]

TransportError == [kind |-> "TransportError", message |-> << >>]

(***************************************************************************)
(* The callers' arguments.                                                 *)
(***************************************************************************)
\* the defaults of Petfinder.animals and Petfinder.organizations
CallDefaults ==
    [animal_id |-> PyNone, animal_type |-> PyNone, breed |-> PyNone, size |-> PyNone,
     gender |-> PyNone, age |-> PyNone, color |-> PyNone, coat |-> PyNone,
     status |-> PyNone, name |-> PyNone, organization_id |-> PyNone,
     location |-> PyNone, distance |-> PyNone, sort |-> PyNone, state |-> PyNone,
     country |-> PyNone, query |-> PyNone, results_per_page |-> PyInt(20)]

Identifiers == {PyNone, PyStr("id1"), PyList(<<"id3">>), PyList(<<"id2", "id1">>)}

AnimalsArgs ==
    {[CallDefaults EXCEPT !.animal_id = id, !.size = sz, !.distance = d,
                          !.results_per_page = l] :
        id \in Identifiers,
        sz \in {PyNone, PyStr("small"), PyStr("huge")},
        d \in {PyNone, PyInt(MaxDistance), PyInt(MaxDistance + 1)},
        l \in {PyInt(20), PyInt(MaxLimit + 1)}}

OrganizationsArgs ==
    {[CallDefaults EXCEPT !.organization_id = id, !.sort = so, !.distance = d,
                          !.results_per_page = l] :
        id \in Identifiers,
        so \in {PyNone, PyStr("distance"), PyStr("nearest")},
        d \in {PyNone, PyInt(MaxDistance), PyInt(MaxDistance + 1)},
        l \in {PyInt(20), PyInt(MaxLimit + 1)}}

PagesArgs == {PyNone} \cup {PyInt(n) : n \in 1..MaxPagesArg}

Calls ==
    [method : {"animals"}, args : AnimalsArgs, pages : PagesArgs, return_df : BOOLEAN]
      \cup
    [method : {"organizations"}, args : OrganizationsArgs, pages : PagesArgs,
     return_df : BOOLEAN]

(***************************************************************************)
(* The state of one call of Petfinder.animals or Petfinder.organizations.  *)
(***************************************************************************)
VARIABLES
    pc,                \* position in the method
    call,              \* the arguments of the call
    server,            \* the server's pages
    params,            \* local: the wire mapping
    pages,             \* local: the pages argument, reassigned by the method
    page,              \* local: the loop variable of the page loop
    max_pages,         \* local: total_pages of the first response
    max_page_warning,  \* local
    items,             \* local: animals / organizations
    idx,               \* position in the identifier list
    requests,          \* every requests.get issued, in order
    responses,         \* every response received, in order
    result,            \* the value returned
    raised,            \* the exception that left the method
    stdout             \* the lines printed

vars == <<pc, call, server, params, pages, page, max_pages, max_page_warning,
          items, idx, requests, responses, result, raised, stdout>>

locals == <<params, pages, page, max_pages, max_page_warning, items, idx>>

NoResult == [returned |-> FALSE, key |-> "", form |-> "", single |-> FALSE, items |-> << >>]

\* animal_id for animals, organization_id for organizations
Identifier(c) ==
    IF c.method = "animals" THEN c.args.animal_id ELSE c.args.organization_id

\* urljoin(self.host, 'animals/') and urljoin(self.host, 'animals/{id}')
SearchUrl(c) == IF c.method = "animals" THEN "animals/" ELSE "organizations/"

IdUrl(c) == IF c.method = "animals" THEN "animals/{id}" ELSE "organizations/{id}"

CallParameters(c) ==
    IF c.method = "animals" THEN _parameters(AnimalsParameters(c.args))
    ELSE _parameters(OrganizationsParameters(c.args))

Init ==
    /\ pc = "call"
    /\ call \in Calls
    /\ server \in Servers
    /\ params = << >>
    /\ pages = call.pages
    /\ page = 0
    /\ max_pages = 0
    /\ max_page_warning = FALSE
    /\ items = << >>
    /\ idx = 1
    /\ requests = << >>
    /\ responses = << >>
    /\ result = NoResult
    /\ raised = NoError
    /\ stdout = << >>

\* the exception is caught and what was aggregated so far is returned
Raise_ReturnsPartial(err) ==
    /\ pc' = "raised"
    /\ raised' = err
    /\ result' = [returned |-> TRUE, key |-> call.method, form |-> "dict",
                  single |-> FALSE, items |-> items]
    /\ UNCHANGED <<call, server, locals, responses, stdout>>

\* an exception leaves the method: nothing is returned, nothing printed
Raise(err) ==
    /\ pc' = "raised"
    /\ raised' = err
    /\ UNCHANGED <<call, server, locals, responses, result, stdout>>

\* requests.get raises
GetFails(req) ==
    /\ requests' = Append(requests, req)
    /\ Raise(TransportError)


(***************************************************************************)
(* Search without identifier.                                              *)
(***************************************************************************)
\* the filters are validated and assembled whatever the identifier is
Parameters_Always ==
    /\ pc = "call"
    /\ IF CallParameters(call).error.kind # "none"
       THEN /\ Raise(CallParameters(call).error)
            /\ UNCHANGED requests
       ELSE /\ params' = CallParameters(call).args
            /\ pc' = IF IsNone(pages) THEN "get_only" ELSE "get_first"
            /\ UNCHANGED <<call, server, pages, page, max_pages, max_page_warning,
                           items, idx, requests, responses, result, raised, stdout>>

\* params = _parameters(...): the validation error leaves the method
Parameters ==
    /\ pc = "call"
    /\ IsNone(Identifier(call))
    /\ IF CallParameters(call).error.kind # "none"
       THEN /\ Raise(CallParameters(call).error)
            /\ UNCHANGED requests
       ELSE /\ params' = CallParameters(call).args
            /\ pc' = IF IsNone(pages) THEN "get_only" ELSE "get_first"
            /\ UNCHANGED <<call, server, pages, page, max_pages, max_page_warning,
                           items, idx, requests, responses, result, raised, stdout>>

\* the single request carries page = 1
GetOnly_Paged ==
    /\ pc = "get_only"
    /\ LET req == SearchRequest(SearchUrl(call), SetPage(params, 1))
       IN  /\ requests' = Append(requests, req)
           /\ responses' = Append(responses, SearchResponse(server, req))
           /\ items' = SearchResponse(server, req).items
           /\ pc' = "finish"
           /\ UNCHANGED <<call, server, params, pages, page, max_pages,
                          max_page_warning, idx, result, raised, stdout>>

\* pages is None: one request
GetOnly ==
    /\ pc = "get_only"
    /\ LET req == SearchRequest(SearchUrl(call), params)
       IN  \/ /\ requests' = Append(requests, req)
              /\ responses' = Append(responses, SearchResponse(server, req))
              /\ items' = SearchResponse(server, req).items
              /\ pc' = "finish"
              /\ UNCHANGED <<call, server, params, pages, page, max_pages,
                             max_page_warning, idx, result, raised, stdout>>
           \/ GetFails(req)

\* pages is left as requested
ClampPages_NoClamp(p, mx) == p

\* if pages > int(max_pages): pages = max_pages
ClampPages(p, mx) == IF p > mx THEN mx ELSE p

\* if pages > int(max_pages): max_page_warning = True
ExceedsMax(p, mx) == p > mx

\* range(2, pages) has a next element
InRange(p, bound) == p < bound

\* pages += 1, the request of page 1, the clamp of pages
GetFirst ==
    /\ pc = "get_first"
    /\ LET bumped == pages.n + 1
           prm == SetPage(params, 1)
           req == SearchRequest(SearchUrl(call), prm)
           resp == SearchResponse(server, req)
       IN  \/ /\ requests' = Append(requests, req)
              /\ responses' = Append(responses, resp)
              /\ params' = prm
              /\ items' = resp.items
              /\ max_pages' = resp.total_pages
              /\ max_page_warning' = (max_page_warning \/ ExceedsMax(bumped, resp.total_pages))
              /\ pages' = PyInt(ClampPages(bumped, resp.total_pages))
              /\ page' = 2
              /\ pc' = IF InRange(2, ClampPages(bumped, resp.total_pages))
                       THEN "loop" ELSE "finish"
              /\ UNCHANGED <<call, server, idx, result, raised, stdout>>
           \/ GetFails(req)

\* one iteration of for page in range(2, pages)
GetNext ==
    /\ pc = "loop"
    /\ LET prm == SetPage(params, page)
           req == SearchRequest(SearchUrl(call), prm)
           resp == SearchResponse(server, req)
       IN  \/ /\ requests' = Append(requests, req)
              /\ responses' = Append(responses, resp)
              /\ params' = prm
              /\ items' = items \o resp.items
              /\ page' = page + 1
              /\ pc' = IF InRange(page + 1, pages.n) THEN "loop" ELSE "finish"
              /\ UNCHANGED <<call, server, pages, max_pages, max_page_warning, idx,
                             result, raised, stdout>>
           \/ GetFails(req)

(***************************************************************************)
(* Lookup by identifier.                                                   *)
(***************************************************************************)
\* a single identifier: one request, the record is not wrapped
GetById ==
    /\ pc = "call"
    /\ Identifier(call).tag \notin {"None", "list"}
    /\ LET req == IdRequest(IdUrl(call), Identifier(call).s)
       IN  \/ /\ requests' = Append(requests, req)
              /\ responses' = Append(responses, Record(req.id))
              /\ items' = << Record(req.id) >>
              /\ pc' = "finish"
              /\ UNCHANGED <<call, server, params, pages, page, max_pages,
                             max_page_warning, idx, result, raised, stdout>>
           \/ GetFails(req)

\* every record is put in front of the records fetched before
GetByIdNext_Prepend ==
    /\ pc \in {"call", "id_loop"}
    /\ Identifier(call).tag = "list"
    /\ idx <= Len(Identifier(call).q)
    /\ LET req == IdRequest(IdUrl(call), Identifier(call).q[idx])
       IN  /\ requests' = Append(requests, req)
           /\ responses' = Append(responses, Record(req.id))
           /\ items' = << Record(req.id) >> \o items
           /\ idx' = idx + 1
           /\ pc' = IF idx + 1 <= Len(Identifier(call).q) THEN "id_loop" ELSE "finish"
           /\ UNCHANGED <<call, server, params, pages, page, max_pages,
                          max_page_warning, result, raised, stdout>>

\* one iteration of the loop over a list or tuple of identifiers
GetByIdNext ==
    /\ pc \in {"call", "id_loop"}
    /\ Identifier(call).tag = "list"
    /\ idx <= Len(Identifier(call).q)
    /\ LET req == IdRequest(IdUrl(call), Identifier(call).q[idx])
       IN  \/ /\ requests' = Append(requests, req)
              /\ responses' = Append(responses, Record(req.id))
              /\ items' = Append(items, Record(req.id))
              /\ idx' = idx + 1
              /\ pc' = IF idx + 1 <= Len(Identifier(call).q) THEN "id_loop" ELSE "finish"
              /\ UNCHANGED <<call, server, params, pages, page, max_pages,
                             max_page_warning, result, raised, stdout>>
           \/ GetFails(req)

(***************************************************************************)
(* The end of both methods: wrap, coerce, print the notice, return.        *)
(***************************************************************************)
\* the line printed when max_page_warning is set
Notice(mx) == [text |-> "pages parameter exceeded maximum number of available pages",
               max_page |-> mx]

Finish ==
    /\ pc = "finish"
    /\ result' = [returned |-> TRUE,
                  key |-> call.method,
                  form |-> IF call.return_df THEN "DataFrame" ELSE "dict",
                  single |-> Identifier(call).tag \notin {"None", "list"},
                  items |-> items]
    /\ stdout' = IF max_page_warning THEN Append(stdout, Notice(max_pages)) ELSE stdout
    /\ pc' = "done"
    /\ UNCHANGED <<call, server, locals, requests, responses, raised>>

Next ==
    \/ Parameters
    \/ GetOnly
    \/ GetFirst
    \/ GetNext
    \/ GetById
    \/ GetByIdNext
    \/ Finish

Spec == Init /\ [][Next]_vars

TypeOK ==
    /\ pc \in {"call", "get_only", "get_first", "loop", "id_loop", "finish", "done", "raised"}
    /\ call \in Calls
    /\ server \in Servers
    /\ max_page_warning \in BOOLEAN
    /\ raised.kind \in {"none", "ValueError", "TransportError"}


(***************************************************************************)
(* Properties of the paginated search.                                     *)
(***************************************************************************)
\* a search: the call carries no identifier
IsSearch == call.method \in {"animals", "organizations"} /\ IsNone(Identifier(call))

\* a paginated search: a search with the pages argument given
IsPaginated == IsSearch /\ ~IsNone(call.pages)

\* the items of pages 1..n of the server, in page order then in-page order
RECURSIVE ConcatPages(_, _)
ConcatPages(sv, n) ==
    IF n <= 0 THEN << >> ELSE ConcatPages(sv, n - 1) \o PageItems(sv, n)

\* C1: a paginated search with pages = N <= total_pages returns exactly the
\* items of pages 1..N, in page order then in-page order.
C1_PagesWithinTotal ==
    (pc = "done" /\ IsPaginated /\ call.pages.n <= server.total_pages)
        => result.items = ConcatPages(server, call.pages.n)

\* C2: a paginated search with pages = N > total_pages = M does not raise and
\* returns the items of every page 1..M in page order.
C2_PagesBeyondTotal ==
    (pc = "done" /\ IsPaginated /\ call.pages.n > server.total_pages)
        => result.items = ConcatPages(server, server.total_pages)

\* C3: the boundary notice is printed exactly when pages = N exceeds
\* total_pages = M; it is not printed when N <= M, in particular N = M.
C3_NoticeIffExceeds ==
    (pc = "done" /\ IsPaginated)
        => ((stdout # << >>) <=> (call.pages.n > server.total_pages))

\* C4: in a paginated search the i-th request asks for page i, no request asks
\* for a page beyond total_pages, and a request is issued only after the
\* response to the previous one was received.
C4_PagesInOrder ==
    IsPaginated =>
        /\ \A i \in 1..Len(requests) :
              /\ "page" \in DOMAIN requests[i].params
              /\ requests[i].params["page"].n = i
              /\ i <= server.total_pages
        /\ Len(requests) <= Len(responses) + 1
        /\ (Len(requests) = Len(responses) + 1 => pc = "raised")

C4_Witness ==
    /\ IsPaginated
    /\ pc = "done"
    /\ Len(requests) >= 3
    /\ Len(responses) = Len(requests)

\* C5: when a page fetch of a paginated search fails, the error reaches the
\* caller, nothing is returned, no notice is printed, and no request follows.
C5_FetchFailureAborts ==
    /\ []((IsPaginated /\ raised.kind = "TransportError")
            => (pc = "raised" /\ result = NoResult /\ stdout = << >>))
    /\ [][(IsPaginated /\ raised.kind = "TransportError")
            => UNCHANGED <<requests, raised, result, stdout>>]_vars
    /\ [][(IsPaginated /\ Len(requests') > Len(responses'))
            => (raised'.kind = "TransportError" /\ pc' = "raised")]_vars

C5_Witness ==
    /\ IsPaginated
    /\ pc = "raised"
    /\ raised.kind = "TransportError"
    /\ Len(requests) >= 2
    /\ items # << >>
    /\ max_page_warning


(***************************************************************************)
(* The table of accepted values of the validator, as a reader of the       *)
(* interface expects it.                                                   *)
(***************************************************************************)
Accepted(dim) ==
    CASE dim = "animal_types" -> {"dog", "cat", "rabbit", "small-furry", "horse",
                                  "bird", "scales-fins-other", "barnyard"}
      [] dim = "size" -> {"small", "medium", "large", "xlarge"}
      [] dim = "gender" -> {"male", "female", "unknown"}
      [] dim = "age" -> {"baby", "young", "adult", "senior"}
      [] dim = "coat" -> {"short", "medium", "long", "wire", "hairless", "curly"}
      [] dim = "status" -> {"adoptable", "adopted", "found"}
      [] dim = "sort" -> {"recent", "-recent", "distance", "-distance"}
      [] dim = "location" -> {"city,state", "latitude,longitude", "postal code"}

\* the dimensions in the order they are checked
Dimensions == <<"animal_types", "size", "gender", "age", "coat", "status", "sort",
                "location", "distance", "limit">>

EnumDimensions == {"animal_types", "size", "gender", "age", "coat", "status", "sort",
                   "location"}

MultiDimensions == {"size", "gender", "age", "coat"}

\* a supplied value v violates dimension dim
Violates(dim, v) ==
    IF IsNone(v) THEN FALSE
    ELSE IF dim = "distance" THEN v.n > 500
    ELSE IF dim = "limit" THEN v.n > 100
    ELSE IF v.tag = "str" THEN v.s \notin Accepted(dim)
    ELSE IF dim \in MultiDimensions THEN \E i \in 1..Len(v.q) : v.q[i] \notin Accepted(dim)
    ELSE TRUE

\* the values a search hands to the validator, by dimension
FilterOf(c, dim) ==
    CASE dim = "animal_types" -> c.args.animal_type
      [] dim = "limit" -> c.args.results_per_page
      [] dim = "size" -> c.args.size
      [] dim = "gender" -> c.args.gender
      [] dim = "age" -> c.args.age
      [] dim = "coat" -> c.args.coat
      [] dim = "status" -> c.args.status
      [] dim = "sort" -> c.args.sort
      [] dim = "location" -> c.args.location
      [] dim = "distance" -> c.args.distance

HasInvalidFilter(c) == \E i \in 1..Len(Dimensions) : Violates(Dimensions[i], FilterOf(c, Dimensions[i]))

\* C6: a search with a filter value that fails its check ends with the
\* validation error and issues no request, with or without pages.
C6_ValidationBeforeRequests ==
    (IsSearch /\ HasInvalidFilter(call)) =>
        /\ requests = << >>
        /\ result = NoResult
        /\ pc \in {"call", "raised"}
        /\ (pc = "raised" => raised.kind = "ValueError")

C6_Witness ==
    /\ IsPaginated
    /\ HasInvalidFilter(call)
    /\ pc = "raised"
    /\ raised.kind = "ValueError"

\* the filters of a search that the caller supplied (not None), under their wire names
SuppliedFilters(c) ==
    LET a == c.args
        named == [size |-> a.size, distance |-> a.distance, sort |-> a.sort,
                  limit |-> a.results_per_page, animal_type |-> a.animal_type,
                  breed |-> a.breed, gender |-> a.gender, age |-> a.age,
                  color |-> a.color, coat |-> a.coat, status |-> a.status,
                  name |-> a.name, location |-> a.location, state |-> a.state,
                  country |-> a.country, query |-> a.query]
    IN  [k \in {x \in DOMAIN named : named[x].tag # "None"} |-> named[k]]

\* C7: with pages None a search issues exactly one request, without a page
\* parameter and with the assembled filters, returns the items of that
\* response unmodified and prints no notice, whatever total_pages is.
C7_SingleFetch ==
    (IsSearch /\ IsNone(call.pages)) =>
        /\ Len(requests) <= 1
        /\ stdout = << >>
        /\ \A i \in 1..Len(requests) :
              /\ "page" \notin DOMAIN requests[i].params
              /\ requests[i].params = SuppliedFilters(call)
              /\ requests[i].url = (IF call.method = "animals" THEN "animals/"
                                    ELSE "organizations/")
        /\ (pc = "done" =>
              /\ Len(requests) = 1
              /\ result.returned
              /\ result.items = responses[1].items
              /\ result.items = PageItems(server, 1))

C7_Witness ==
    /\ IsSearch
    /\ IsNone(call.pages)
    /\ pc = "done"
    /\ server.total_pages > 1
    /\ Len(requests) = 1
    /\ "size" \in DOMAIN requests[1].params


(***************************************************************************)
(* _check_parameters called on its own.                                    *)
(***************************************************************************)
\* the defaults of _check_parameters: every argument None
CheckDefaults ==
    [animal_types |-> PyNone, size |-> PyNone, gender |-> PyNone, age |-> PyNone,
     coat |-> PyNone, status |-> PyNone, location |-> PyNone, distance |-> PyNone,
     sort |-> PyNone, limit |-> PyNone]

\* the strings tried for every filter: the members of all tables and some others
Strings ==
    Range(_animal_types) \cup Range(_sizes) \cup Range(_genders) \cup Range(_ages)
      \cup Range(_coats) \cup Range(_status) \cup Range(_location) \cup Range(_sort)
      \cup {"huge", "Dog", ""}

\* the lists tried for a multi-value filter with table t
ListsOver(t) ==
    UNION {[1..len -> Range(t) \cup {"huge"}] : len \in 0..MaxListLen}

Numbers == {-1, 0, 99, 100, 101, 499, 500, 501, 502}

\* one filter supplied, every other left None
OneFilterInputs ==
    {[CheckDefaults EXCEPT ![d] = PyStr(x)] :
        d \in {"animal_types", "size", "gender", "age", "coat", "status", "sort",
               "location"},
        x \in Strings}
      \cup {[CheckDefaults EXCEPT !.size = PyList(q)] : q \in ListsOver(_sizes)}
      \cup {[CheckDefaults EXCEPT !.gender = PyList(q)] : q \in ListsOver(_genders)}
      \cup {[CheckDefaults EXCEPT !.age = PyList(q)] : q \in ListsOver(_ages)}
      \cup {[CheckDefaults EXCEPT !.coat = PyList(q)] : q \in ListsOver(_coats)}

GoodFilters ==
    [animal_types |-> PyStr("dog"), size |-> PyList(<<"small", "large">>),
     gender |-> PyStr("male"), age |-> PyList(<<"baby">>), coat |-> PyStr("short"),
     status |-> PyStr("adoptable"), location |-> PyStr("postal code"),
     distance |-> PyInt(500), sort |-> PyStr("-recent"), limit |-> PyInt(100)]

BadFilters ==
    [animal_types |-> PyStr("dragon"), size |-> PyList(<<"small", "huge">>),
     gender |-> PyStr("other"), age |-> PyStr("old"), coat |-> PyList(<<"fluffy">>),
     status |-> PyStr("lost"), location |-> PyStr("Boston, MA"),
     distance |-> PyInt(501), sort |-> PyStr("random"), limit |-> PyInt(101)]

\* any set of filters bad, the others all good or all None
MixedInputs ==
    {[d \in DOMAIN CheckDefaults |->
          IF d \in bad THEN BadFilters[d] ELSE IF fill THEN GoodFilters[d] ELSE PyNone] :
        bad \in SUBSET (DOMAIN CheckDefaults), fill \in BOOLEAN}

\* distance and limit over the numbers, the other filters all good or all None
NumberInputs ==
    {[(IF fill THEN GoodFilters ELSE CheckDefaults)
          EXCEPT !.distance = d, !.limit = l] :
        d \in {PyNone} \cup {PyInt(n) : n \in Numbers},
        l \in {PyNone} \cup {PyInt(n) : n \in Numbers},
        fill \in BOOLEAN}

CheckCalls ==
    [method : {"_check_parameters"},
     args : OneFilterInputs \cup MixedInputs \cup NumberInputs]

ReturnedNone == [returned |-> TRUE, key |-> "None", form |-> "None", single |-> FALSE,
                 items |-> << >>]

CheckInit ==
    /\ pc = "check"
    /\ call \in CheckCalls
    /\ server = [total_pages |-> 1, sizes |-> <<1>>]
    /\ params = << >>
    /\ pages = PyNone
    /\ page = 0
    /\ max_pages = 0
    /\ max_page_warning = FALSE
    /\ items = << >>
    /\ idx = 1
    /\ requests = << >>
    /\ responses = << >>
    /\ result = NoResult
    /\ raised = NoError
    /\ stdout = << >>

\* _check_parameters(**args): raises the ValueError or returns None
CheckParametersCall ==
    /\ pc = "check"
    /\ IF _check_parameters(call.args).kind # "none"
       THEN /\ Raise(_check_parameters(call.args))
            /\ UNCHANGED requests
       ELSE /\ pc' = "done"
            /\ result' = ReturnedNone
            /\ UNCHANGED <<call, server, locals, requests, responses, raised, stdout>>

CheckNext == CheckParametersCall

CheckSpec == CheckInit /\ [][CheckNext]_vars


(***************************************************************************)
(* Properties of _check_parameters.                                        *)
(***************************************************************************)
IsCheck == call.method = "_check_parameters"

\* dim is the only filter supplied
OnlyFilter(a, dim) ==
    /\ ~IsNone(a[dim])
    /\ \A other \in (DOMAIN a) \ {dim} : IsNone(a[other])

\* the words by which a message names its dimension
DimensionWords(dim) ==
    CASE dim = "animal_types" -> "animal types "
      [] dim = "size" -> "sizes "
      [] dim = "gender" -> "genders "
      [] dim = "age" -> "ages "
      [] dim = "coat" -> "coats "
      [] dim = "status" -> "animal status "
      [] dim = "sort" -> "sort order "
      [] dim = "location" -> "location "
      [] dim = "distance" -> "distance cannot be greater than 500"
      [] dim = "limit" -> "results per page cannot be greater than 100"

NamesDimension(msg, dim) ==
    /\ Len(msg) >= 1
    /\ msg[1].k = "text"
    /\ msg[1].s = DimensionWords(dim)

ListsAccepted(msg, dim) ==
    \E i \in 1..Len(msg) :
        /\ msg[i].k = "tuple"
        /\ Range(msg[i].q) = Accepted(dim)
        /\ Len(msg[i].q) = Cardinality(Accepted(dim))

\* C8: with one enumerated filter supplied and the others unset, a value
\* outside the filter's enumeration raises a validation error that names the
\* filter and lists its accepted values, and a value inside returns.
C8_EnumerationCheck ==
    \A dim \in EnumDimensions :
        (IsCheck /\ pc # "check" /\ OnlyFilter(call.args, dim)) =>
            IF Violates(dim, call.args[dim])
            THEN /\ pc = "raised"
                 /\ raised.kind = "ValueError"
                 /\ NamesDimension(raised.message, dim)
                 /\ ListsAccepted(raised.message, dim)
            ELSE /\ pc = "done"
                 /\ raised = NoError

C8_Witness ==
    /\ IsCheck
    /\ pc = "raised"
    /\ OnlyFilter(call.args, "location")
    /\ call.args.location = PyStr("distance")

\* the enumerated filters of a are all unset or valid
EnumsPass(a) == \A dim \in EnumDimensions : ~Violates(dim, a[dim])

\* C9: with the other filters valid or unset, an integer distance is accepted
\* iff it is <= 500 and an integer limit iff it is <= 100; nothing is too small.
C9_NumericBounds ==
    (IsCheck /\ pc # "check" /\ EnumsPass(call.args)) =>
        /\ (call.args.distance.tag = "int"
              /\ (IsNone(call.args.limit) \/ call.args.limit.n <= 100))
             => ((pc = "done") <=> (call.args.distance.n <= 500))
        /\ (call.args.limit.tag = "int"
              /\ (IsNone(call.args.distance) \/ call.args.distance.n <= 500))
             => ((pc = "done") <=> (call.args.limit.n <= 100))
        /\ (pc # "done" => (pc = "raised" /\ raised.kind = "ValueError"))

C9_Witness ==
    /\ IsCheck
    /\ pc = "done"
    /\ call.args.distance = PyInt(500)
    /\ call.args.limit = PyInt(100)

\* the dimensions that a violates, in the order of the checks
ViolatingDimensions(a) == SelectSeq(Dimensions, LAMBDA dim : Violates(dim, a[dim]))

\* the pieces of msg before each newline, in order
RECURSIVE LinesOf(_, _)
LinesOf(msg, line) ==
    IF msg = << >> THEN << >>
    ELSE IF Head(msg) = Text("\n") THEN << line >> \o LinesOf(Tail(msg), << >>)
    ELSE LinesOf(Tail(msg), Append(line, Head(msg)))

\* C10: when filters are invalid one validation error is raised whose message
\* is one message per violating filter and none for the others, each followed
\* by a newline, in the order animal type, size, gender, age, coat, status,
\* sort, location, distance, limit.
C10_AggregatedMessage ==
    (IsCheck /\ pc # "check" /\ Len(ViolatingDimensions(call.args)) >= 1) =>
        /\ pc = "raised"
        /\ raised.kind = "ValueError"
        /\ result = NoResult
        /\ raised.message[Len(raised.message)] = Text("\n")
        /\ LET lines == LinesOf(raised.message, << >>)
               bad == ViolatingDimensions(call.args)
           IN  /\ Len(lines) = Len(bad)
               /\ \A i \in 1..Len(bad) : NamesDimension(lines[i], bad[i])

C10_Witness ==
    /\ IsCheck
    /\ pc = "raised"
    /\ ViolatingDimensions(call.args) = <<"size", "sort", "location", "limit">>
    /\ ~IsNone(call.args.gender)


(***************************************************************************)
(* _parameters called on its own.                                          *)
(***************************************************************************)
\* a value for every argument of _parameters that passes the validation
SampleParameters ==
    [animal |-> PyStr("Rex"), breed |-> PyStr("pug"), size |-> PyStr("small"),
     gender |-> PyList(<<"male", "female">>), color |-> PyStr("black"),
     coat |-> PyStr("short"), animal_type |-> PyStr("dog"),
     location |-> PyStr("postal code"), distance |-> PyInt(10), state |-> PyStr("NJ"),
     country |-> PyStr("US"), query |-> PyStr("rescue"), sort |-> PyStr("recent"),
     name |-> PyStr("Fido"), age |-> PyStr("baby"), animal_id |-> PyStr("id1"),
     organization_id |-> PyStr("NJ333"), status |-> PyStr("adopted"),
     results_per_page |-> PyInt(50), page |-> PyInt(2)]

\* the arguments _check_parameters never sees
Unchecked ==
    {"animal", "breed", "color", "state", "country", "query", "name", "animal_id",
     "organization_id", "page"}

\* any set of the unchecked arguments, with or without results_per_page and status
UncheckedInputs ==
    {[k \in DOMAIN ParametersDefaults |->
          IF k \in given \/ (k = "results_per_page" /\ rpp) \/ (k = "status" /\ st)
          THEN SampleParameters[k] ELSE PyNone] :
        given \in SUBSET Unchecked, rpp \in BOOLEAN, st \in BOOLEAN}

\* the arguments of _parameters that carry the filters a of _check_parameters
WithFilters(p, a) ==
    [p EXCEPT !.animal_type = a.animal_types, !.size = a.size, !.gender = a.gender,
              !.age = a.age, !.coat = a.coat, !.status = a.status,
              !.location = a.location, !.distance = a.distance, !.sort = a.sort,
              !.results_per_page = a.limit]

\* the filters of MixedInputs, next to a name or to nothing else
FilterInputs ==
    {WithFilters([ParametersDefaults EXCEPT !.name = n], a) :
        a \in MixedInputs, n \in {PyNone, PyStr("Fido")}}

ParametersCalls == [method : {"_parameters"}, args : UncheckedInputs \cup FilterInputs]

ParametersInit ==
    /\ pc = "assemble"
    /\ call \in ParametersCalls
    /\ server = [total_pages |-> 1, sizes |-> <<1>>]
    /\ params = << >>
    /\ pages = PyNone
    /\ page = 0
    /\ max_pages = 0
    /\ max_page_warning = FALSE
    /\ items = << >>
    /\ idx = 1
    /\ requests = << >>
    /\ responses = << >>
    /\ result = NoResult
    /\ raised = NoError
    /\ stdout = << >>

\* _parameters(**args): raises the ValueError of the validation or returns args
ParametersCall ==
    /\ pc = "assemble"
    /\ IF _parameters(call.args).error.kind # "none"
       THEN /\ Raise(_parameters(call.args).error)
            /\ UNCHANGED requests
       ELSE /\ pc' = "done"
            /\ result' = [returned |-> TRUE, key |-> "args", form |-> "dict",
                          single |-> FALSE, items |-> _parameters(call.args).args]
            /\ UNCHANGED <<call, server, locals, requests, responses, raised, stdout>>

ParametersNext == ParametersCall

ParametersSpec == ParametersInit /\ [][ParametersNext]_vars

IsParameters == call.method = "_parameters"

\* the key under which the remote API receives an argument of _parameters
WireName(arg) == IF arg = "results_per_page" THEN "limit" ELSE arg

\* the arguments of the call that are not None
Supplied(a) == {k \in DOMAIN a : a[k].tag # "None"}

\* C11: when the validation passes, _parameters returns a mapping whose keys
\* are exactly the wire names of the arguments that are not None, each with
\* the value supplied, results_per_page under limit; when the validation
\* fails it returns nothing and the validation error propagates.
C11_WireMapping ==
    (IsParameters /\ pc # "assemble") =>
        IF HasInvalidFilter(call)
        THEN /\ pc = "raised"
             /\ raised.kind = "ValueError"
             /\ result = NoResult
        ELSE /\ pc = "done"
             /\ raised = NoError
             /\ result.returned
             /\ DOMAIN result.items = {WireName(k) : k \in Supplied(call.args)}
             /\ \A k \in Supplied(call.args) : result.items[WireName(k)] = call.args[k]

C11_Witness ==
    /\ IsParameters
    /\ pc = "done"
    /\ call.args.results_per_page = PyInt(50)
    /\ IsNone(call.args.status)
    /\ "limit" \in DOMAIN result.items
    /\ result.items["limit"] = PyInt(50)
    /\ "status" \notin DOMAIN result.items
    /\ Cardinality(DOMAIN result.items) >= 3


(***************************************************************************)
(* Scalar and one-element collection.                                      *)
(***************************************************************************)
\* the arguments a with the str under dim replaced by the list holding it
Wrapped(a, dim) == [a EXCEPT ![dim] = PyList(<< a[dim].s >>)]

\* C12: for size, gender, age and coat a scalar string s is validated like the
\* one-element collection [s]: both pass when s is in the enumeration, both
\* raise a validation error with the same message when it is not.
C12_ScalarAsCollection ==
    \A dim \in MultiDimensions :
        (IsCheck /\ pc # "check" /\ call.args[dim].tag = "str") =>
            /\ raised = _check_parameters(Wrapped(call.args, dim))
            /\ (pc = "done") <=> (_check_parameters(Wrapped(call.args, dim)).kind = "none")
            /\ (pc = "raised") <=> (_check_parameters(Wrapped(call.args, dim)).kind = "ValueError")
            /\ OnlyFilter(call.args, dim) =>
                  ((pc = "done") <=> (call.args[dim].s \in Accepted(dim)))

C12_Witness ==
    /\ IsCheck
    /\ pc = "raised"
    /\ OnlyFilter(call.args, "size")
    /\ call.args.size = PyStr("huge")
    /\ raised = _check_parameters([call.args EXCEPT !.size = PyList(<<"huge">>)])


(***************************************************************************)
(* Properties of the lookup by identifier.                                 *)
(***************************************************************************)
\* a lookup: animals with animal_id, organizations with organization_id
IsLookup == call.method \in {"animals", "organizations"} /\ ~IsNone(Identifier(call))

\* the identifiers of a lookup in the order given
IdentifierList(c) ==
    IF Identifier(c).tag = "list" THEN Identifier(c).q ELSE << Identifier(c).s >>

\* the request a lookup issues for identifier id: no parameters, no page
LookupRequest(c, id) ==
    [url |-> IF c.method = "animals" THEN "animals/{id}" ELSE "organizations/{id}",
     id |-> id, params |-> << >>]

\* C13: a lookup issues one request per identifier in input order; a single
\* identifier returns its record unwrapped, a list of k identifiers a list of
\* the k records in that order; pages has no effect and no notice is printed.
C13_LookupByIdentifier ==
    IsLookup =>
        /\ stdout = << >>
        /\ ~max_page_warning
        /\ Len(requests) <= Len(IdentifierList(call))
        /\ \A i \in 1..Len(requests) :
              requests[i] = LookupRequest(call, IdentifierList(call)[i])
        /\ (pc = "done" =>
              /\ Len(requests) = Len(IdentifierList(call))
              /\ result.returned
              /\ result.single = (Identifier(call).tag # "list")
              /\ Len(result.items) = Len(IdentifierList(call))
              /\ \A i \in 1..Len(result.items) :
                    /\ result.items[i].id = IdentifierList(call)[i]
                    /\ result.items[i] = responses[i])

C13_Witness ==
    /\ IsLookup
    /\ pc = "done"
    /\ ~IsNone(call.pages)
    /\ Identifier(call) = PyList(<<"id2", "id1">>)
    /\ Len(requests) = 2
    /\ Len(result.items) = 2

\* C15: in a lookup the filters are never validated or assembled: whatever
\* their values, no validation error is raised and the requests are those of
\* the identifiers alone.
C15_LookupIgnoresFilters ==
    (IsLookup /\ HasInvalidFilter(call)) =>
        /\ raised.kind # "ValueError"
        /\ params = << >>
        /\ pc \in {"call", "id_loop", "finish", "done", "raised"}
        /\ \A i \in 1..Len(requests) :
              /\ i <= Len(IdentifierList(call))
              /\ requests[i] = LookupRequest(call, IdentifierList(call)[i])
        /\ (pc = "done" => Len(requests) = Len(IdentifierList(call)))

C15_Witness ==
    /\ IsLookup
    /\ pc = "done"
    /\ call.method = "animals"
    /\ call.args.size = PyStr("huge")
    /\ call.args.distance = PyInt(501)
    /\ call.args.results_per_page = PyInt(101)
    /\ Len(requests) = Len(IdentifierList(call))


(***************************************************************************)
(* Petfinder.animal_types and Petfinder.breeds.                            *)
(***************************************************************************)
\* a Python set, by its elements in iteration order
PySet(x) == [tag |-> "set", s |-> "", q |-> x, n |-> 0]

\* the tuple animal_types compares its types with
AnimalTypesAccepted == <<"dog", "cat", "rabbit", "small-furry", "horse", "bird",
                         "scales-fins-other", "barnyard">>

\* the tuple breeds compares its types with
BreedsAccepted == <<"dog", "cat", "rabbit", "small-furry", "horse", "bird",
                    "scales-fins-other", "barnyard">>

\* the types breeds asks for when types is None
BreedsDefaultTypes == <<"dog", "cat", "rabbit", "small-furry",
                        "horse", "bird", "scales-fins-other", "barnyard">>

TypeError(msg) == [kind |-> "TypeError", message |-> msg]

TypesValueError ==
    ValueError(<< Text("animal types must be of the following "),
                  TupleText(AnimalTypesAccepted) >>)

\* the types are not compared with the table
TypesCheck_Skipped(types, table) == NoError

\* the check at the head of both methods: set(type_check).difference(table);
\* set() of a value that is not iterable raises a TypeError
TypesCheck(types, table) ==
    IF IsNone(types) THEN NoError
    ELSE IF types.tag = "int" THEN TypeError(<< Text("object is not iterable") >>)
    ELSE IF Range(AsCollection(types)) \ Range(table) # {} THEN TypesValueError
    ELSE NoError

\* the else branch of both methods
TypesShapeError ==
    TypeError(<< Text("types parameter must be either None, str, list or tuple") >>)

TypesTable(c) == IF c.method = "animal_types" THEN AnimalTypesAccepted ELSE BreedsAccepted

TypesUrl(c, t) ==
    IF c.method = "breeds" THEN "types/{type}/breeds"
    ELSE IF t = "" THEN "types" ELSE "types/{type}"

\* the types requested, in order; "" stands for the request of all types
TypesRequested(c) ==
    IF IsNone(c.types)
        THEN (IF c.method = "animal_types" THEN << "" >> ELSE BreedsDefaultTypes)
    ELSE IF c.types.tag = "str" THEN << c.types.s >>
    ELSE c.types.q

\* list and tuple are both PyList
TypesInputs ==
    {PyNone, PyInt(5), PySet(<<"dog">>), PySet(<<"dragon">>)}
      \cup {PyStr(x) : x \in Range(AnimalTypesAccepted) \cup {"dragon", "Dog"}}
      \cup {PyList(q) : q \in UNION {[1..len -> {"dog", "cat", "barnyard", "dragon"}] :
                                       len \in 0..MaxListLen}}

TypesCalls ==
    [method : {"animal_types"}, types : TypesInputs, return_df : {FALSE},
     raw_results : {FALSE}]
      \cup
    [method : {"breeds"}, types : TypesInputs, return_df : BOOLEAN,
     raw_results : BOOLEAN]

TypesInit ==
    /\ pc = "types_call"
    /\ call \in TypesCalls
    /\ server = [total_pages |-> 1, sizes |-> <<1>>]
    /\ params = << >>
    /\ pages = PyNone
    /\ page = 0
    /\ max_pages = 0
    /\ max_page_warning = FALSE
    /\ items = << >>
    /\ idx = 1
    /\ requests = << >>
    /\ responses = << >>
    /\ result = NoResult
    /\ raised = NoError
    /\ stdout = << >>

\* the check of types and the choice of the branch
TypesEnter ==
    /\ pc = "types_call"
    /\ IF TypesCheck(call.types, TypesTable(call)).kind # "none"
       THEN /\ Raise(TypesCheck(call.types, TypesTable(call)))
            /\ UNCHANGED requests
       ELSE IF call.types.tag \notin {"None", "str", "list"}
       THEN /\ Raise(TypesShapeError)
            /\ UNCHANGED requests
       ELSE /\ pc' = IF Len(TypesRequested(call)) = 0 THEN "types_finish" ELSE "types_get"
            /\ UNCHANGED <<call, server, locals, requests, responses, result, raised,
                           stdout>>

\* one requests.get of either method
TypesGet ==
    /\ pc = "types_get"
    /\ LET t == TypesRequested(call)[idx]
           req == IdRequest(TypesUrl(call, t), t)
       IN  \/ /\ requests' = Append(requests, req)
              /\ responses' = Append(responses, Record(t))
              /\ items' = Append(items, Record(t))
              /\ idx' = idx + 1
              /\ pc' = IF idx + 1 <= Len(TypesRequested(call)) THEN "types_get"
                       ELSE "types_finish"
              /\ UNCHANGED <<call, server, params, pages, page, max_pages,
                             max_page_warning, result, raised, stdout>>
           \/ GetFails(req)

\* the result: the JSON, the DataFrame of breeds, or the names of the breeds
TypesFinish ==
    /\ pc = "types_finish"
    /\ result' = [returned |-> TRUE,
                  key |-> IF call.method = "animal_types" THEN "type" ELSE "breeds",
                  form |-> IF call.method = "animal_types" THEN "dict"
                           ELSE IF call.return_df THEN "DataFrame"
                           ELSE IF call.raw_results THEN "dict" ELSE "names",
                  single |-> call.types.tag = "str"
                               \/ (IsNone(call.types) /\ call.method = "animal_types"),
                  items |-> items]
    /\ pc' = "done"
    /\ UNCHANGED <<call, server, locals, requests, responses, raised, stdout>>

TypesNext ==
    \/ TypesEnter
    \/ TypesGet
    \/ TypesFinish

TypesSpec == TypesInit /\ [][TypesNext]_vars

IsTypes == call.method \in {"animal_types", "breeds"}

\* types names a type outside the eight animal types
HasInvalidType(c) ==
    /\ c.types.tag \in {"str", "list"}
    /\ \E i \in 1..Len(AsCollection(c.types)) :
          AsCollection(c.types)[i] \notin Accepted("animal_types")

\* types is neither None, a string, a list nor a tuple
HasUnsupportedShape(c) == c.types.tag \notin {"None", "str", "list"}

\* C14: animal_types and breeds issue no request when types is invalid: a
\* type outside the eight raises a ValueError and an unsupported shape raises
\* an error, both before any request; a valid list of k types issues k
\* requests in input order, None one request (animal_types) or one per each
\* of the eight types (breeds).
C14_TypesChecked ==
    IsTypes =>
        /\ HasInvalidType(call) =>
              /\ requests = << >>
              /\ pc \in {"types_call", "raised"}
              /\ (pc = "raised" => raised.kind = "ValueError")
        /\ HasUnsupportedShape(call) =>
              /\ requests = << >>
              /\ pc \in {"types_call", "raised"}
              /\ (pc = "raised" => raised.kind \in {"TypeError", "ValueError"})
        /\ (call.types.tag = "list" /\ ~HasInvalidType(call)) =>
              /\ Len(requests) <= Len(call.types.q)
              /\ \A i \in 1..Len(requests) : requests[i].id = call.types.q[i]
              /\ (pc = "done" => Len(requests) = Len(call.types.q))
        /\ (IsNone(call.types) /\ pc = "done") =>
              IF call.method = "animal_types"
              THEN /\ Len(requests) = 1
                   /\ requests[1].url = "types"
              ELSE /\ Len(requests) = 8
                   /\ {requests[i].id : i \in 1..8} = Accepted("animal_types")
                   /\ \A i \in 1..8 : requests[i].url = "types/{type}/breeds"

C14_Witness ==
    /\ IsTypes
    /\ call.method = "breeds"
    /\ call.types = PyList(<<"dog", "dragon">>)
    /\ pc = "raised"
    /\ raised.kind = "ValueError"
    /\ requests = << >>

====
